---- MODULE Spec2Model ----
(***************************************************************************)
(* Model of lib/rules/brace-on-same-line.js (eslint-plugin-brace-rules).   *)
(*                                                                         *)
(* Source text is a sequence of one-unit characters: " " and "\n" are      *)
(* whitespace, "c" is a comment, every other unit is a token.  The rule    *)
(* reads token locations (line, column, range) and emits reports that      *)
(* carry a text edit {range, text}; the host applies the edits.            *)
(***************************************************************************)
EXTENDS Integers, Sequences, FiniteSets, TLC

VARIABLES styles, rules, source, node, reports, phase

vars == <<styles, rules, source, node, reports, phase>>

-----------------------------------------------------------------------------
(* Bounds *)

MaxStatements == 2

MaxRules == 2

-----------------------------------------------------------------------------
(* JavaScript values *)

JsTrue == "true"

JsFalse == "false"

EmptyObject == [k \in {} |-> JsFalse]

JsUndefined == "undefined"

\* obj[key]: undefined when the key is absent
Get(obj, key) == IF key \in DOMAIN obj THEN obj[key] ELSE JsUndefined

\* a JS value used as a condition: undefined and false are falsy
Truthy(obj, key) == Get(obj, key) \notin {JsUndefined, JsFalse}

\* a boolean computed by the rule, as a JS value
JsBool(b) == IF b THEN JsTrue ELSE JsFalse

\* _.assign(target, source1, source2): later sources overwrite earlier keys
assign(target, s1, s2) ==
    [k \in DOMAIN target \cup DOMAIN s1 \cup DOMAIN s2 |->
        IF k \in DOMAIN s2 THEN s2[k]
        ELSE IF k \in DOMAIN s1 THEN s1[k]
        ELSE target[k]]

\* _.repeat(" ", n)
repeat(n) == [i \in 1..n |-> " "]

-----------------------------------------------------------------------------
(* Style resolution (lines 13-63) *)

blocks ==
    << "FunctionDeclaration", "FunctionExpression", "ArrowFunctionExpression",
       "IfStatement", "TryStatement", "DoWhileStatement", "WhileStatement",
       "WithStatement", "ForStatement", "ForInStatement", "ForOfStatement",
       "SwitchStatement" >>

BlockTypes == {blocks[i] : i \in DOMAIN blocks}

styles1tbs == [t \in BlockTypes |-> "always"]

stylesAllman == [t \in BlockTypes |-> "never"]

stylesStroustrup ==
    assign([noCuddledElse |-> JsTrue, noCuddledCatchFinally |-> JsTrue],
           styles1tbs, EmptyObject)

InitialStyles ==
    [n \in {"1tbs", "allman", "stroustrup"} |->
        IF n = "1tbs" THEN styles1tbs
        ELSE IF n = "allman" THEN stylesAllman
        ELSE stylesStroustrup]

\* context.options[0] / context.options[1] as passed by the host:
\*   [kind |-> "undefined" | "string" | "object", name |-> preset, obj |-> map]
Undefined == [kind |-> "undefined", name |-> "", obj |-> EmptyObject]

StyleName(n) == [kind |-> "string", name |-> n, obj |-> EmptyObject]

ObjectValue(o) == [kind |-> "object", name |-> "", obj |-> o]

NewObject == "new"

\* context.options[0] || "1tbs"
styleOption(opt0) == IF opt0.kind = "undefined" THEN StyleName("1tbs") ELSE opt0

\* the object that `style` refers to after lines 49-51
styleObject(st, opt0) ==
    LET style == styleOption(opt0)
    IN  IF style.kind = "string" THEN st[style.name] ELSE style.obj

\* the identity of the object `style` refers to: a shared preset table, or the
\* caller's own map
styleRef(opt0) ==
    LET style == styleOption(opt0)
    IN  IF style.kind = "string" THEN style.name ELSE NewObject

factoryTargetShared(opt0) == styleRef(opt0)

\* the first argument of _.assign at line 53 is a fresh object literal
factoryTarget(opt0) == NewObject

normalizeSwapped(options) ==
    [k \in {x \in DOMAIN options : ~(x \in BlockTypes /\ options[x] = "ignore")} |->
        IF k \in BlockTypes
        THEN (IF options[k] = "never" THEN JsTrue ELSE JsFalse)
        ELSE options[k]]

\* blocks.forEach at lines 55-63
normalize(options) ==
    [k \in {x \in DOMAIN options : ~(x \in BlockTypes /\ options[x] = "ignore")} |->
        IF k \in BlockTypes
        THEN (IF options[k] = "always" THEN JsTrue ELSE JsFalse)
        ELSE options[k]]

\* the options object built by one activation (lines 45-63)
factory(st, opt0, opt1) ==
    LET target == factoryTarget(opt0)
        base == IF target = NewObject THEN EmptyObject ELSE st[target]
    IN  normalize(assign(base, styleObject(st, opt0), opt1.obj))

\* the shared table after one activation
stylesAfterFactory(st, opt0, opt1) ==
    LET target == factoryTarget(opt0)
    IN  IF target = NewObject THEN st
        ELSE [st EXCEPT ![target] = factory(st, opt0, opt1)]

\* the policy a rule activation reads through its closure variable `options`
OptionsOf(st, rule) == IF rule.ref = NewObject THEN rule.own ELSE st[rule.ref]

-----------------------------------------------------------------------------
(* Source text, tokens and locations (host: SourceCode) *)

IsSpace(ch) == ch \in {" ", "\n"}

IsTrivia(ch) == ch \in {" ", "\n", "c"}

RECURSIVE Tok(_, _, _, _, _)
Tok(text, p, line, col, acc) ==
    IF p > Len(text) THEN acc
    ELSE IF text[p] = "\n" THEN Tok(text, p + 1, line + 1, 0, acc)
    ELSE IF IsTrivia(text[p]) THEN Tok(text, p + 1, line, col + 1, acc)
    ELSE Tok(text, p + 1, line, col + 1,
             Append(acc, [value |-> text[p], line |-> line, column |-> col,
                          range |-> <<p - 1, p>>]))

\* the token stream of a text: each token has loc.start.line, loc.start.column
\* and range
Tokenize(text) == Tok(text, 1, 1, 0, <<>>)

Context(text, options) == [text |-> text, tokens |-> Tokenize(text), options |-> options]

getTokenBefore(ctx, n) == ctx.tokens[n.first - 1]

getFirstToken(ctx, n) == ctx.tokens[n.first]

getLastToken(ctx, n) == ctx.tokens[n.last]

\* sourceCode.getTokensBefore(n, count)
getTokensBefore(ctx, n, count) ==
    [i \in 1..count |-> ctx.tokens[n.first - count + i - 1]]

\* sourceCode.getLastTokens(n, count)
getLastTokens(ctx, n, count) ==
    [i \in 1..count |-> ctx.tokens[n.last - count + i]]

\* sourceCode.getText(n, beforeCount): the node's text with beforeCount
\* characters before it
getText(ctx, n, beforeCount) ==
    LET start == ctx.tokens[n.first].range[1]
        from == IF start - beforeCount < 0 THEN 0 ELSE start - beforeCount
    IN  SubSeq(ctx.text, from + 1, ctx.tokens[n.last].range[2])

RECURSIVE LeadingSpace(_)
\* /^(\s+)/ : the leading run of whitespace, "" when there is none
LeadingSpace(s) ==
    IF s = <<>> \/ ~IsSpace(Head(s)) THEN <<>>
    ELSE <<Head(s)>> \o LeadingSpace(Tail(s))

-----------------------------------------------------------------------------
(* Messages (lines 65-70) *)

OPEN_MESSAGE == "Opening curly brace does not appear on the same line as controlling statement."

OPEN_MESSAGE_ALLMAN == "Opening curly brace appears on the same line as controlling statement."

BODY_MESSAGE == "Statement inside of curly braces should be on next line."

CLOSE_MESSAGE == "Closing curly brace does not appear on the same line as the subsequent block."

CLOSE_MESSAGE_SINGLE == "Closing curly brace should be on the same line as opening curly brace or on the line after the previous block."

CLOSE_MESSAGE_STROUSTRUP_ALLMAN == "Closing curly brace appears on the same line as the subsequent block."

-----------------------------------------------------------------------------
(* Helpers (lines 76-117) *)

\* fixer.insertTextBefore(token, "\n" + whitespace)
insertBreakBefore(token, whitespace) ==
    [range |-> <<token.range[1], token.range[1]>>, text |-> <<"\n">> \o whitespace]

removeBreakBetweenFromStart(startToken, endToken) ==
    [range |-> <<startToken.range[1], endToken.range[1]>>, text |-> <<" ">>]

\* fixer.replaceTextRange([startToken.range[1], endToken.range[0]], " ")
removeBreakBetween(startToken, endToken) ==
    [range |-> <<startToken.range[2], endToken.range[1]>>, text |-> <<" ">>]

getWhitespaceBefore(ctx, n) ==
    LeadingSpace(getText(ctx, n, ctx.tokens[n.first].column))

isBlock(n) == n.type = "BlockStatement"

isCurlyPunctuator(token) == token.value = "{" \/ token.value = "}"

Report(n, message, fix) == [node |-> n.first, message |-> message, fix |-> fix]

-----------------------------------------------------------------------------
(* checkBlock (lines 127-173) *)

allOnSameLineOpening(previousToken, curlyToken, curlyTokenEnd) ==
    previousToken.line = curlyToken.line

\* line 136
allOnSameLine(previousToken, curlyToken, curlyTokenEnd) ==
    previousToken.line = curlyTokenEnd.line

openBraceFixSwapped(startSameLine, previousToken, curlyToken, whitespace) ==
    IF startSameLine THEN removeBreakBetween(previousToken, curlyToken)
    ELSE insertBreakBefore(curlyToken, whitespace)

\* line 146
openBraceFix(startSameLine, previousToken, curlyToken, whitespace) ==
    IF startSameLine THEN insertBreakBefore(curlyToken, whitespace)
    ELSE removeBreakBetween(previousToken, curlyToken)

\* lines 141-148
openBraceReports(startSameLine, expectSameLine, previousToken, curlyToken, whitespace, parentNode) ==
    IF JsBool(startSameLine) # expectSameLine
    THEN << Report(parentNode,
                   IF startSameLine THEN OPEN_MESSAGE_ALLMAN ELSE OPEN_MESSAGE,
                   openBraceFix(startSameLine, previousToken, curlyToken, whitespace)) >>
    ELSE <<>>

\* lines 154-162: the edit is anchored at the opening brace (curlyToken)
bodyReports(ctx, n, curlyToken) ==
    LET first == ctx.tokens[n.body[1].first]
    IN  IF curlyToken.line = first.line
        THEN << Report(n.body[1], BODY_MESSAGE,
                       insertBreakBefore(curlyToken, repeat(first.column))) >>
        ELSE <<>>

\* lines 164-172: lastToken is the last statement NODE; its loc.start is the
\* location of that statement's first token
closeReports(ctx, n, curlyTokenEnd, whitespace) ==
    LET lastToken == n.body[Len(n.body)]
        endOnSameLine == curlyTokenEnd.line = ctx.tokens[lastToken.first].line
    IN  IF endOnSameLine
        THEN << Report(lastToken, CLOSE_MESSAGE_SINGLE,
                       insertBreakBefore(curlyTokenEnd, whitespace)) >>
        ELSE <<>>

checkBlock(ctx, n, expectSameLine, whitespace, parentNode) ==
    IF ~isBlock(n) THEN <<>>
    ELSE
      LET previousToken == getTokenBefore(ctx, n)
          curlyToken == getFirstToken(ctx, n)
          curlyTokenEnd == getLastToken(ctx, n)
      IN  IF allOnSameLine(previousToken, curlyToken, curlyTokenEnd)
             /\ Truthy(ctx.options, "allowSingleLine")
          THEN <<>>
          ELSE
            LET startSameLine == previousToken.line = curlyToken.line
                open == openBraceReports(startSameLine, expectSameLine,
                                         previousToken, curlyToken, whitespace, parentNode)
            IN  IF Len(n.body) = 0 THEN open
                ELSE open \o bodyReports(ctx, n, curlyToken)
                          \o closeReports(ctx, n, curlyTokenEnd, whitespace)

-----------------------------------------------------------------------------
(* checkForCuddled (lines 175-193) *)

checkForCuddledNoNegation(n, previousToken, firstToken, expectSameLine, leadingWhitespace) ==
    LET closeOnSameLine == previousToken.line = firstToken.line
    IN  IF expectSameLine
        THEN IF closeOnSameLine /\ isCurlyPunctuator(previousToken)
             THEN << Report(n, CLOSE_MESSAGE, removeBreakBetween(previousToken, firstToken)) >>
             ELSE <<>>
        ELSE IF closeOnSameLine
             THEN << Report(n, CLOSE_MESSAGE_STROUSTRUP_ALLMAN,
                            insertBreakBefore(firstToken, leadingWhitespace)) >>
             ELSE <<>>

checkForCuddled(n, previousToken, firstToken, expectSameLine, leadingWhitespace) ==
    LET closeOnSameLine == previousToken.line = firstToken.line
    IN  IF expectSameLine
        THEN IF ~closeOnSameLine /\ isCurlyPunctuator(previousToken)
             THEN << Report(n, CLOSE_MESSAGE, removeBreakBetween(previousToken, firstToken)) >>
             ELSE <<>>
        ELSE IF closeOnSameLine
             THEN << Report(n, CLOSE_MESSAGE_STROUSTRUP_ALLMAN,
                            insertBreakBefore(firstToken, leadingWhitespace)) >>
             ELSE <<>>

-----------------------------------------------------------------------------
(* Visit callbacks (lines 195-300) *)

typeInOptionsAlways(type, options) == TRUE

\* `type in options` (lines 196, 212, 233, 280)
typeInOptions(type, options) == type \in DOMAIN options

checkNode(ctx, type, n) ==
    IF ~typeInOptions(type, ctx.options) THEN <<>>
    ELSE checkBlock(ctx, n.body, Get(ctx.options, type),
                    getWhitespaceBefore(ctx, n), n)

checkIfStatement(ctx, n) ==
    IF ~typeInOptions("IfStatement", ctx.options) THEN <<>>
    ELSE
      LET leadingWhitespace == getWhitespaceBefore(ctx, n)
          expect == Get(ctx.options, "IfStatement")
      IN  checkBlock(ctx, n.consequent, expect, leadingWhitespace, n)
          \o checkBlock(ctx, n.alternate, expect, leadingWhitespace, n)
          \o (IF n.alternate.type # "null"
              THEN LET tokens == getTokensBefore(ctx, n.alternate, 2)
                   IN  checkForCuddled(n.alternate, tokens[1], tokens[2],
                           Truthy(ctx.options, "IfStatement")
                                  /\ ~Truthy(ctx.options, "noCuddledElse")
                                  /\ isBlock(n.consequent),
                           leadingWhitespace)
              ELSE <<>>)

checkTryStatement(ctx, n) ==
    IF ~typeInOptions("TryStatement", ctx.options) THEN <<>>
    ELSE
      LET leadingWhitespace == getWhitespaceBefore(ctx, n)
          expect == Get(ctx.options, "TryStatement")
          cuddle == Truthy(ctx.options, "TryStatement")
                    /\ ~Truthy(ctx.options, "noCuddledCatchFinally")
      IN  checkBlock(ctx, n.block, expect, leadingWhitespace, n)
          \o (IF n.handler.type # "null"
              THEN checkBlock(ctx, n.handler.body, expect, leadingWhitespace, n.handler)
                   \o (IF isBlock(n.handler.body)
                       THEN checkForCuddled(n.handler, getTokenBefore(ctx, n.handler),
                                getFirstToken(ctx, n.handler), cuddle, leadingWhitespace)
                       ELSE <<>>)
              ELSE <<>>)
          \o (IF n.finalizer.type # "null"
              THEN checkBlock(ctx, n.finalizer, expect, leadingWhitespace, n)
                   \o (IF isBlock(n.finalizer)
                       THEN LET tokens == getTokensBefore(ctx, n.finalizer, 2)
                            IN  checkForCuddled(n.finalizer, tokens[1], tokens[2],
                                    cuddle, leadingWhitespace)
                       ELSE <<>>)
              ELSE <<>>)

switchTokensFromEnd(ctx, n) == getLastTokens(ctx, n, 2)

\* lines 286-290
switchTokens(ctx, n) ==
    IF Len(n.cases) > 0 THEN getTokensBefore(ctx, n.cases[1], 2)
    ELSE getLastTokens(ctx, n, 3)

checkSwitchStatement(ctx, n) ==
    IF ~typeInOptions("SwitchStatement", ctx.options) THEN <<>>
    ELSE
      LET tokens == switchTokens(ctx, n)
          sameLine == tokens[1].line = tokens[2].line
      IN  IF Get(ctx.options, "SwitchStatement") # JsBool(sameLine)
          THEN << Report(n, IF sameLine THEN OPEN_MESSAGE_ALLMAN ELSE OPEN_MESSAGE,
                         IF sameLine
                         THEN insertBreakBefore(tokens[2], getWhitespaceBefore(ctx, n))
                         ELSE removeBreakBetween(tokens[1], tokens[2])) >>
          ELSE <<>>

\* the visitor table (lines 306-319): the reports one visit of node n emits
visit(text, options, n) ==
    LET ctx == Context(text, options)
    IN  IF n.type = "IfStatement" THEN checkIfStatement(ctx, n)
        ELSE IF n.type = "TryStatement" THEN checkTryStatement(ctx, n)
        ELSE IF n.type = "SwitchStatement" THEN checkSwitchStatement(ctx, n)
        ELSE checkNode(ctx, n.type, n)

-----------------------------------------------------------------------------
(* Host: applying the edits of the reports to the text *)

RECURSIVE InsertedAt(_, _, _)
\* the texts of the edits that start at offset p, in report order
InsertedAt(edits, i, p) ==
    IF i > Len(edits) THEN <<>>
    ELSE (IF edits[i].range[1] = p THEN edits[i].text ELSE <<>>)
         \o InsertedAt(edits, i + 1, p)

\* offset p lies inside a replaced range
Covered(edits, p) ==
    \E i \in DOMAIN edits : edits[i].range[1] <= p /\ p < edits[i].range[2]

RECURSIVE ApplyFrom(_, _, _)
ApplyFrom(text, edits, p) ==
    IF p > Len(text) THEN <<>>
    ELSE InsertedAt(edits, 1, p)
         \o (IF p < Len(text) /\ ~Covered(edits, p) THEN <<text[p + 1]>> ELSE <<>>)
         \o ApplyFrom(text, edits, p + 1)

\* the text after every edit of the reports has been applied
applyFixes(text, reps) == ApplyFrom(text, [i \in DOMAIN reps |-> reps[i].fix], 0)

-----------------------------------------------------------------------------
(* Inputs: source layouts with their syntax trees *)

SP == <<" ">>

NL == <<"\n">>

NLIndent == <<"\n", " ">>

\* a block comment on the same line
CM == <<" ", "c", " ">>

\* a line comment, ended by its line break
CMNL == <<" ", "c", "\n">>

AnchorGaps == {SP, NL, CM, CMNL}

InnerGaps == {SP, NLIndent}

CloseGaps == {SP, NL}

Indents == {<<>>, SP}

NullNode == [type |-> "null", first |-> 0, last |-> 0, body |-> <<>>]

\* a brace-delimited body: the text before "{", the text before each
\* statement, whether the last statement spans two lines, the text before "}"
Block(open, gaps, multi, close) ==
    [kind |-> "block", open |-> open, gaps |-> gaps, multi |-> multi, close |-> close]

\* a bare statement body
Bare(open) ==
    [kind |-> "bare", open |-> open, gaps |-> <<>>, multi |-> FALSE, close |-> <<>>]

RECURSIVE StatementsText(_, _, _)
StatementsText(gaps, multi, j) ==
    IF j > Len(gaps) THEN <<>>
    ELSE gaps[j] \o <<"s">>
         \o (IF multi /\ j = Len(gaps) THEN NL ELSE <<>>) \o <<";">>
         \o StatementsText(gaps, multi, j + 1)

BodyText(d) ==
    IF d.kind = "block"
    THEN d.open \o <<"{">> \o StatementsText(d.gaps, d.multi, 1) \o d.close \o <<"}">>
    ELSE d.open \o <<"s", ";">>

BodyTokenCount(d) == IF d.kind = "block" THEN 2 + 2 * Len(d.gaps) ELSE 2

Statement(k) == [type |-> "ExpressionStatement", first |-> k, last |-> k + 1, body |-> <<>>]

\* the tree of body d whose first token is token k
BodyNode(d, k) ==
    IF d.kind = "block"
    THEN [type |-> "BlockStatement", first |-> k, last |-> k + 2 * Len(d.gaps) + 1,
          body |-> [j \in 1..Len(d.gaps) |-> Statement(k + 2 * j - 1)]]
    ELSE Statement(k)

Blocks ==
    {Block(o, g, m, c) :
        o \in AnchorGaps,
        g \in UNION {[1..n -> InnerGaps] : n \in 1..MaxStatements},
        m \in BOOLEAN, c \in CloseGaps}
    \cup {Block(o, <<>>, FALSE, c) : o \in AnchorGaps, c \in CloseGaps}

\* {}, { s; } and {\n s;\n}
SmallBlocks ==
    {Block(o, <<>>, FALSE, <<>>) : o \in {SP, NL}}
    \cup {Block(o, <<SP>>, FALSE, SP) : o \in {SP, NL}}
    \cup {Block(o, <<NLIndent>>, FALSE, NL) : o \in {SP, NL}}

TinyBlocks == {Block(SP, <<>>, FALSE, <<>>), Block(SP, <<NLIndent>>, FALSE, NL)}

GenericTypes == BlockTypes \ {"IfStatement", "TryStatement", "SwitchStatement"}

\* the tokens of a construct up to its body
Header(type) ==
    IF type = "DoWhileStatement" THEN <<"do">>
    ELSE IF type = "ArrowFunctionExpression" THEN <<"(", " ", "=>">>
    ELSE IF type \in {"FunctionDeclaration", "FunctionExpression"} THEN <<"function", " ", ")">>
    ELSE <<"while", " ", ")">>

HeaderTokenCount(type) == IF type = "DoWhileStatement" THEN 1 ELSE 2

GenericLayout(type, indent, d) ==
    [text |-> indent \o Header(type) \o BodyText(d),
     node |-> [type |-> type, first |-> 1,
               last |-> HeaderTokenCount(type) + BodyTokenCount(d),
               body |-> BodyNode(d, HeaderTokenCount(type) + 1)]]

\* if ) consequent
IfLayout(indent, c) ==
    [text |-> indent \o <<"if", " ", ")">> \o BodyText(c),
     node |-> [type |-> "IfStatement", first |-> 1, last |-> 2 + BodyTokenCount(c),
               consequent |-> BodyNode(c, 3), alternate |-> NullNode]]

\* if ) consequent else alternate
IfElseLayout(indent, c, elseGap, a) ==
    [text |-> indent \o <<"if", " ", ")">> \o BodyText(c) \o elseGap \o <<"else">> \o BodyText(a),
     node |-> [type |-> "IfStatement", first |-> 1,
               last |-> 3 + BodyTokenCount(c) + BodyTokenCount(a),
               consequent |-> BodyNode(c, 3),
               alternate |-> BodyNode(a, 4 + BodyTokenCount(c))]]

NoClause == [kind |-> "none", open |-> <<>>, gaps |-> <<>>, multi |-> FALSE, close |-> <<>>]

\* try block [catch ) handler] [finally finalizer]; hg and fg are the texts
\* before catch and before finally
TryLayout(indent, b, hg, h, fg, f) ==
    LET hasH == h.kind # "none"
        hasF == f.kind # "none"
        catchAt == 2 + BodyTokenCount(b)
        afterH == IF hasH THEN catchAt + 2 + BodyTokenCount(h) ELSE catchAt
    IN  [text |-> indent \o <<"try">> \o BodyText(b)
                  \o (IF hasH THEN hg \o <<"catch", " ", ")">> \o BodyText(h) ELSE <<>>)
                  \o (IF hasF THEN fg \o <<"finally">> \o BodyText(f) ELSE <<>>),
         node |-> [type |-> "TryStatement", first |-> 1,
                   last |-> IF hasF THEN afterH + BodyTokenCount(f) ELSE afterH - 1,
                   block |-> BodyNode(b, 2),
                   handler |-> IF hasH
                               THEN [type |-> "CatchClause", first |-> catchAt,
                                     last |-> afterH - 1, body |-> BodyNode(h, catchAt + 2)]
                               ELSE NullNode,
                   finalizer |-> IF hasF THEN BodyNode(f, afterH + 1) ELSE NullNode]]

MaxCases == 2

RECURSIVE CasesText(_, _)
CasesText(g, n) == IF n = 0 THEN <<>> ELSE g \o <<"case", ":">> \o CasesText(g, n - 1)

\* switch ) { case: ... }
SwitchLayout(indent, o, g, n, c) ==
    [text |-> indent \o <<"switch", " ", ")">> \o o \o <<"{">> \o CasesText(g, n) \o c \o <<"}">>,
     node |-> [type |-> "SwitchStatement", first |-> 1, last |-> 4 + 2 * n,
               cases |-> [j \in 1..n |-> [type |-> "SwitchCase", first |-> 2 + 2 * j,
                                          last |-> 3 + 2 * j, body |-> <<>>]]]]

GenericLayouts ==
    {GenericLayout("WhileStatement", i, b) : i \in Indents, b \in Blocks}
    \cup {GenericLayout(t, <<>>, b) : t \in GenericTypes \ {"WhileStatement"}, b \in SmallBlocks}
    \cup {GenericLayout(t, <<>>, Bare(SP)) : t \in {"WhileStatement", "ArrowFunctionExpression"}}

IfBodies == SmallBlocks \cup {Bare(SP)}

IfLayouts ==
    {IfLayout(SP, c) : c \in IfBodies}
    \cup {IfElseLayout(SP, c, g, a) : c \in IfBodies, g \in AnchorGaps, a \in IfBodies}

Clauses == {NoClause} \cup TinyBlocks

TryBlocks == TinyBlocks \cup {Block(NL, <<SP>>, FALSE, SP)}

ClauseGaps == {SP, NL, CMNL}

TryLayouts ==
    {TryLayout(SP, q[1], q[2], q[3], q[4], q[5]) :
        q \in {x \in TryBlocks \X ClauseGaps \X Clauses \X ClauseGaps \X Clauses :
                  x[3].kind # "none" \/ x[5].kind # "none"}}

SwitchLayouts ==
    {SwitchLayout(SP, o, g, n, c) :
        o \in AnchorGaps, g \in {SP, NL}, n \in 0..MaxCases, c \in {SP, NL}}

Layouts == GenericLayouts \cup IfLayouts \cup TryLayouts \cup SwitchLayouts

-----------------------------------------------------------------------------
(* Inputs: configurations *)

\* configurations of the rule whose visits are explored layout by layout
VisitStyles ==
    { StyleName("1tbs"), StyleName("allman"), StyleName("stroustrup"),
      ObjectValue([IfStatement |-> "always", TryStatement |-> "never",
                   WhileStatement |-> "never", SwitchStatement |-> "always"]) }

VisitOverrides ==
    { Undefined,
      ObjectValue([allowSingleLine |-> JsTrue]),
      ObjectValue([allowSingleLine |-> JsFalse, noCuddledElse |-> JsTrue]),
      ObjectValue([IfStatement |-> "ignore", TryStatement |-> "ignore",
                   SwitchStatement |-> "ignore", noCuddledCatchFinally |-> JsFalse]) }

\* configurations explored in sequences of activations
PolicyStyles ==
    { Undefined, StyleName("1tbs"), StyleName("allman"), StyleName("stroustrup"),
      ObjectValue([IfStatement |-> "ignore", WhileStatement |-> "always"]) }

PolicyOverrides ==
    { Undefined,
      ObjectValue([allowSingleLine |-> JsTrue, noCuddledElse |-> JsFalse]),
      ObjectValue([IfStatement |-> "never", TryStatement |-> "ignore"]),
      ObjectValue([WhileStatement |-> "always", noCuddledCatchFinally |-> JsTrue]) }

PolicyLayouts ==
    { IfElseLayout(SP, Block(SP, <<NLIndent>>, FALSE, NL), SP,
                   Block(NL, <<NLIndent>>, FALSE, NL)),
      GenericLayout("WhileStatement", <<>>, Block(NL, <<SP>>, FALSE, SP)) }

-----------------------------------------------------------------------------
(* State machine *)

\* one activation of the rule: its two positional options, the object its
\* closure variable `options` refers to, and the policy computed at activation
Rule(st, opt0, opt1) ==
    [opt0 |-> opt0, opt1 |-> opt1, ref |-> factoryTarget(opt0),
     own |-> factory(st, opt0, opt1), atActivation |-> factory(st, opt0, opt1)]

Idle ==
    /\ styles = InitialStyles
    /\ source = <<>>
    /\ node = NullNode
    /\ reports = <<>>
    /\ phase = "idle"

\* the rule has been activated once (create(context) has returned)
Init ==
    /\ Idle
    /\ \E opt0 \in VisitStyles, opt1 \in VisitOverrides :
          rules = <<Rule(InitialStyles, opt0, opt1)>>

\* the module has been loaded, no activation yet
InitPolicy ==
    /\ Idle
    /\ rules = <<>>

\* create(context): lines 45-63
Activate(opt0, opt1) ==
    /\ Len(rules) < MaxRules
    /\ rules' = Append(rules, Rule(styles, opt0, opt1))
    /\ styles' = stylesAfterFactory(styles, opt0, opt1)
    /\ UNCHANGED <<source, node, reports, phase>>

\* the host parses a file and hands over its tree and tokens
Parse(layout) ==
    /\ phase = "idle"
    /\ source' = layout.text
    /\ node' = layout.node
    /\ reports' = <<>>
    /\ phase' = "parsed"
    /\ UNCHANGED <<styles, rules>>

\* the host moves on to another file
ParseNext(layout) ==
    /\ source' = layout.text
    /\ node' = layout.node
    /\ reports' = <<>>
    /\ phase' = "parsed"
    /\ UNCHANGED <<styles, rules>>

\* the host's traversal calls activation i's callback for the node
Visit(i) ==
    /\ i \in DOMAIN rules
    /\ phase \in {"parsed", "fixed"}
    /\ reports' = visit(source, OptionsOf(styles, rules[i]), node)
    /\ phase' = IF phase = "parsed" THEN "checked" ELSE "rechecked"
    /\ UNCHANGED <<styles, rules, source, node>>

\* the host applies the edits of the reports of the last visit
ApplyFixes ==
    /\ phase = "checked"
    /\ reports # <<>>
    /\ source' = applyFixes(source, reports)
    /\ phase' = "fixed"
    /\ UNCHANGED <<styles, rules, node, reports>>

Next ==
    \/ \E layout \in Layouts : Parse(layout)
    \/ \E i \in 1..MaxRules : Visit(i)
    \/ ApplyFixes

NextPolicy ==
    \/ \E opt0 \in PolicyStyles, opt1 \in PolicyOverrides : Activate(opt0, opt1)
    \/ \E layout \in PolicyLayouts : ParseNext(layout)
    \/ \E i \in 1..MaxRules : Visit(i)

Spec == Init /\ [][Next]_vars

SpecPolicy == InitPolicy /\ [][NextPolicy]_vars

-----------------------------------------------------------------------------
(* Vocabulary of the properties *)

\* the policy of the activation whose visits Spec explores
Options == OptionsOf(styles, rules[1])

PlacementMessages == {OPEN_MESSAGE, OPEN_MESSAGE_ALLMAN, BODY_MESSAGE, CLOSE_MESSAGE_SINGLE}

OpenMessages == {OPEN_MESSAGE, OPEN_MESSAGE_ALLMAN}

Visited == phase \in {"checked", "rechecked"}

\* the brace-delimited blocks that the visit of node n checks
BlocksOf(n) ==
    IF n.type = "IfStatement" THEN {b \in {n.consequent, n.alternate} : isBlock(b)}
    ELSE IF n.type = "TryStatement"
         THEN {b \in {n.block, n.finalizer} : isBlock(b)}
              \cup (IF n.handler.type # "null" THEN {n.handler.body} ELSE {})
    ELSE IF n.type \in GenericTypes THEN {b \in {n.body} : isBlock(b)}
    ELSE {}

\* the edit of report r lies between the previous token of block b and its
\* closing brace
InBlock(toks, r, b) ==
    /\ toks[b.first - 1].range[2] <= r.fix.range[1]
    /\ r.fix.range[2] <= toks[b.last].range[1]

\* a placement report of block b
PlacementOf(toks, r, b) == r.message \in PlacementMessages /\ InBlock(toks, r, b)

\* previous token and closing brace of block b are on one line
OneLine(toks, b) == toks[b.first - 1].line = toks[b.last].line

\* two edits neither overlap nor meet at a position
Disjoint(f, g) == f.range[2] < g.range[1] \/ g.range[2] < f.range[1]

IsCollapse(toks, fix, k) ==
    fix = [range |-> <<toks[k - 1].range[2], toks[k].range[1]>>, text |-> <<" ">>]

IsBreakBefore(toks, fix, k) ==
    /\ fix.range = <<toks[k].range[1], toks[k].range[1]>>
    /\ Len(fix.text) >= 1
    /\ fix.text[1] = "\n"
    /\ \A j \in 2..Len(fix.text) : IsSpace(fix.text[j])

-----------------------------------------------------------------------------
(* C1 *)

\* C1: under preset 1tbs, after every fix of one placement check of a block
\* has been applied, checking the block again emits no placement diagnostic.
C1_FixConvergence ==
    (/\ phase = "rechecked"
     /\ rules[1].opt0 = StyleName("1tbs")
     /\ rules[1].opt1 = Undefined
     /\ node.type \in GenericTypes)
    => \A i \in DOMAIN reports : reports[i].message \notin PlacementMessages

-----------------------------------------------------------------------------
(* C2 *)

\* C2: the edits of the placement reports that one visit emits for one block
\* cover pairwise disjoint ranges (they neither overlap nor meet).
C2_EditsDisjoint ==
    phase = "checked" =>
        LET toks == Tokenize(source)
        IN  \A b \in BlocksOf(node) : \A i, j \in DOMAIN reports :
                (i < j /\ PlacementOf(toks, reports[i], b) /\ PlacementOf(toks, reports[j], b))
                => Disjoint(reports[i].fix, reports[j].fix)

-----------------------------------------------------------------------------
(* C3 *)

\* C3: visiting a node whose type is absent from the resolved policy emits no
\* diagnostic, whatever its layout.
C3_AbsentTypeSilent ==
    (Visited /\ node.type \notin DOMAIN Options) => reports = <<>>

\* an ignored try statement whose layout 1tbs would report
C3_Witness ==
    /\ phase = "checked"
    /\ node.type = "TryStatement"
    /\ Get(rules[1].opt1.obj, "TryStatement") = "ignore"
    /\ "TryStatement" \notin DOMAIN Options
    /\ node.handler.type # "null"
    /\ node.finalizer.type # "null"
    /\ Len(visit(source, factory(InitialStyles, StyleName("1tbs"), Undefined), node)) >= 3

-----------------------------------------------------------------------------
(* C4 *)

\* the reports of the same visit with allowSingleLine false
WithoutAllowSingleLine ==
    visit(source, assign(EmptyObject, Options, [allowSingleLine |-> JsFalse]), node)

\* C4: with allowSingleLine set, a visit emits exactly the reports it emits
\* with allowSingleLine false, less the placement reports of the blocks whose
\* previous token and closing brace are on one line; a construct whose only
\* block is such a one-line block yields no report under any policy.
C4_AllowSingleLine ==
    (phase = "checked" /\ Truthy(Options, "allowSingleLine")) =>
        LET toks == Tokenize(source)
            Kept(r) == ~\E b \in BlocksOf(node) : OneLine(toks, b) /\ PlacementOf(toks, r, b)
        IN  /\ reports = SelectSeq(WithoutAllowSingleLine, Kept)
            /\ (node.type \in GenericTypes /\ \A b \in BlocksOf(node) : OneLine(toks, b))
                  => reports = <<>>

\* a one-line if/else: the placement reports are suppressed, the cuddle report is not
C4_Witness ==
    /\ phase = "checked"
    /\ Truthy(Options, "allowSingleLine")
    /\ node.type = "IfStatement"
    /\ \E b \in BlocksOf(node) : OneLine(Tokenize(source), b)
    /\ reports # <<>>
    /\ Len(reports) < Len(WithoutAllowSingleLine)

-----------------------------------------------------------------------------
(* C5 *)

CuddleFlags == {"noCuddledElse", "noCuddledCatchFinally"}

Flags == CuddleFlags \cup {"allowSingleLine"}

\* the value the named preset (or the explicit map) gives a key, as specified
BaseValue(opt0, key) ==
    IF opt0.kind = "object" THEN Get(opt0.obj, key)
    ELSE LET name == IF opt0.kind = "undefined" THEN "1tbs" ELSE opt0.name
         IN  IF key \in BlockTypes
             THEN (IF name = "allman" THEN "never" ELSE "always")
             ELSE IF name = "stroustrup" /\ key \in CuddleFlags THEN JsTrue
             ELSE JsUndefined

MergedValue(opt0, opt1, key) ==
    IF key \in DOMAIN opt1.obj THEN opt1.obj[key] ELSE BaseValue(opt0, key)

Resolved(opt0, opt1, options) ==
    /\ DOMAIN options \subseteq BlockTypes \cup Flags
    /\ \A t \in BlockTypes :
          LET v == MergedValue(opt0, opt1, t)
          IN  /\ v \in {"ignore", JsUndefined} => t \notin DOMAIN options
              /\ v = "always" => Get(options, t) = JsTrue
              /\ v = "never" => Get(options, t) = JsFalse
    /\ \A f \in Flags : Get(options, f) = MergedValue(opt0, opt1, f)

\* C5: the policy of every activation is the preset's table (1tbs: all true,
\* allman: all false, stroustrup: all true plus both cuddle flags) with every
\* key of the overrides replacing the preset's value, "ignore" removed,
\* "always" as true and "never" as false.
C5_StyleResolution ==
    \A i \in DOMAIN rules :
        Resolved(rules[i].opt0, rules[i].opt1, OptionsOf(styles, rules[i]))

\* stroustrup with an override that flips one type and ignores another
C5_Witness ==
    \E i \in DOMAIN rules :
        /\ rules[i].opt0 = StyleName("stroustrup")
        /\ Get(rules[i].opt1.obj, "TryStatement") = "ignore"
        /\ Get(rules[i].opt1.obj, "IfStatement") = "never"
        /\ Truthy(OptionsOf(styles, rules[i]), "noCuddledElse")
        /\ "TryStatement" \notin DOMAIN OptionsOf(styles, rules[i])

-----------------------------------------------------------------------------
(* C6 *)

\* an if statement without else whose block body starts and ends on lines of
\* their own, visited under the pure preset `name`
IfWithBodyOnOwnLines(name) ==
    /\ phase = "checked"
    /\ rules[1].opt0 = StyleName(name)
    /\ "IfStatement" \notin DOMAIN rules[1].opt1.obj
    /\ node.type = "IfStatement"
    /\ node.alternate.type = "null"
    /\ isBlock(node.consequent)
    /\ Len(node.consequent.body) >= 1
    /\ LET toks == Tokenize(source)
           b == node.consequent
       IN  /\ toks[b.first].line < toks[b.body[1].first].line
           /\ toks[b.body[Len(b.body)].last].line < toks[b.last].line

\* C6: for such an if statement, under 1tbs with "{" on a later line than ")"
\* exactly one diagnostic is emitted and its fix replaces the text between ")"
\* and "{" by one space; under allman with "{" on the line of ")" exactly one
\* diagnostic is emitted and its fix inserts a line break before "{".
C6_IfOpenBrace ==
    LET toks == Tokenize(source)
        k == node.consequent.first
    IN  /\ (IfWithBodyOnOwnLines("1tbs") /\ toks[k - 1].line < toks[k].line)
              => (Len(reports) = 1 /\ reports[1].message = OPEN_MESSAGE
                                   /\ IsCollapse(toks, reports[1].fix, k))
        /\ (IfWithBodyOnOwnLines("allman") /\ toks[k - 1].line = toks[k].line)
              => (Len(reports) = 1 /\ reports[1].message = OPEN_MESSAGE_ALLMAN
                                   /\ IsBreakBefore(toks, reports[1].fix, k))

C6_Witness ==
    /\ IfWithBodyOnOwnLines("1tbs")
    /\ Tokenize(source)[node.consequent.first - 1].line
          < Tokenize(source)[node.consequent.first].line
    /\ Len(reports) = 1

-----------------------------------------------------------------------------
(* C7 *)

\* C7: every edit is non-destructive: the text it adds is whitespace and the
\* range it replaces holds only whitespace.
C7_NonDestructive ==
    phase = "checked" =>
        \A i \in DOMAIN reports :
            /\ \A j \in DOMAIN reports[i].fix.text : IsSpace(reports[i].fix.text[j])
            /\ \A p \in (reports[i].fix.range[1] + 1)..reports[i].fix.range[2] :
                  IsSpace(source[p])

-----------------------------------------------------------------------------
(* C8 *)

\* the index of the first "{" token
OpeningBrace(toks) ==
    CHOOSE k \in DOMAIN toks :
        toks[k].value = "{" /\ \A j \in 1..(k - 1) : toks[j].value # "{"

\* C8: for a switch statement whose type is in the policy, exactly one
\* diagnostic is emitted when (the opening brace is on the line of the token
\* before it) differs from the policy's boolean and none otherwise, with or
\* without cases.
C8_Switch ==
    (phase = "checked" /\ node.type = "SwitchStatement"
        /\ "SwitchStatement" \in DOMAIN Options) =>
        LET toks == Tokenize(source)
            k == OpeningBrace(toks)
            sameLine == toks[k - 1].line = toks[k].line
        IN  /\ toks[k - 1].value = ")"
            /\ Len(reports) = (IF JsBool(sameLine) # Options["SwitchStatement"] THEN 1 ELSE 0)
            /\ \A i \in DOMAIN reports :
                  IF sameLine THEN IsBreakBefore(toks, reports[i].fix, k)
                  ELSE IsCollapse(toks, reports[i].fix, k)

\* a switch without cases whose brace placement is reported
C8_Witness ==
    /\ phase = "checked"
    /\ node.type = "SwitchStatement"
    /\ "SwitchStatement" \in DOMAIN Options
    /\ Len(node.cases) = 0
    /\ Len(reports) = 1

-----------------------------------------------------------------------------
(* C9 *)

\* C9: after any activations and visits the shared preset tables are unchanged
\* and every activation's policy equals the value computed at its activation.
C9_PolicyImmutable ==
    /\ styles = InitialStyles
    /\ \A i \in DOMAIN rules : OptionsOf(styles, rules[i]) = rules[i].atActivation

\* two activations of one preset with different overrides, then a visit
C9_Witness ==
    /\ Len(rules) = 2
    /\ rules[1].opt0 = rules[2].opt0
    /\ rules[1].opt0.kind = "string"
    /\ rules[1].opt1 # rules[2].opt1
    /\ rules[2].opt1 # Undefined
    /\ phase = "checked"
    /\ reports # <<>>

-----------------------------------------------------------------------------
(* C10 *)

\* the open-brace reports of block b
OpenReportsOf(toks, b) ==
    SelectSeq(reports, LAMBDA r : r.message \in OpenMessages
                                   /\ r.fix.range[2] = toks[b.first].range[1])

\* block b is checked and not exempted by allowSingleLine
Checked(toks, b) ==
    /\ phase = "checked"
    /\ node.type \in DOMAIN Options
    /\ b \in BlocksOf(node)
    /\ ~(OneLine(toks, b) /\ Truthy(Options, "allowSingleLine"))

\* C10 as stated: a same-line brace that the policy does not expect is fixed
\* by collapsing the text before it, a brace on a later line that the policy
\* expects on the same line by inserting a line break before it.
C10_AsStated ==
    LET toks == Tokenize(source)
    IN  \A b \in BlocksOf(node) : Checked(toks, b) =>
            LET startSameLine == toks[b.first - 1].line = toks[b.first].line
                open == OpenReportsOf(toks, b)
            IN  /\ Len(open) = (IF JsBool(startSameLine) # Options[node.type] THEN 1 ELSE 0)
                /\ \A i \in DOMAIN open :
                      IF startSameLine THEN IsCollapse(toks, open[i].fix, b.first)
                      ELSE IsBreakBefore(toks, open[i].fix, b.first)

\* C10 (amended): an open-brace diagnostic is reported exactly when (previous
\* token and opening brace share a line) differs from the expected boolean;
\* when they share a line the fix inserts a line break plus whitespace before
\* the opening brace, and when they do not the fix collapses the text between
\* the previous token and the opening brace to one space.
C10_OpenBrace ==
    LET toks == Tokenize(source)
    IN  \A b \in BlocksOf(node) : Checked(toks, b) =>
            LET startSameLine == toks[b.first - 1].line = toks[b.first].line
                open == OpenReportsOf(toks, b)
            IN  /\ Len(open) = (IF JsBool(startSameLine) # Options[node.type] THEN 1 ELSE 0)
                /\ \A i \in DOMAIN open :
                      IF startSameLine THEN IsBreakBefore(toks, open[i].fix, b.first)
                      ELSE IsCollapse(toks, open[i].fix, b.first)

\* a block whose brace is on a later line although the policy expects it on
\* the line of the previous token
C10_Witness ==
    /\ phase = "checked"
    /\ node.type \in GenericTypes
    /\ Get(Options, node.type) = JsTrue
    /\ isBlock(node.body)
    /\ Tokenize(source)[node.body.first - 1].line < Tokenize(source)[node.body.first].line
    /\ \E i \in DOMAIN reports : reports[i].message = OPEN_MESSAGE

-----------------------------------------------------------------------------
(* C11 *)

CuddleMessages == {CLOSE_MESSAGE, CLOSE_MESSAGE_STROUSTRUP_ALLMAN}

\* the else, catch and finally clauses of node n: the index of the keyword
\* token, the flag that forbids cuddling it, and whether the construct before
\* the keyword is a block
ClausesOf(n) ==
    IF n.type = "IfStatement"
    THEN (IF n.alternate.type # "null"
          THEN {[k |-> n.alternate.first - 1, flag |-> "noCuddledElse",
                 afterBlock |-> isBlock(n.consequent)]}
          ELSE {})
    ELSE IF n.type = "TryStatement"
    THEN (IF n.handler.type # "null"
          THEN {[k |-> n.handler.first, flag |-> "noCuddledCatchFinally", afterBlock |-> TRUE]}
          ELSE {})
         \cup (IF n.finalizer.type # "null"
               THEN {[k |-> n.finalizer.first - 1, flag |-> "noCuddledCatchFinally",
                      afterBlock |-> TRUE]}
               ELSE {})
    ELSE {}

\* the cuddle reports whose edit is anchored at keyword token k
CuddleReportsAt(toks, k) ==
    SelectSeq(reports, LAMBDA r : r.message \in CuddleMessages
                                   /\ r.fix.range[2] = toks[k].range[1])

\* block b is laid out as 1tbs wants it
WellPlaced(toks, b) ==
    /\ toks[b.first - 1].line = toks[b.first].line
    /\ Len(b.body) >= 1
    /\ toks[b.first].line < toks[b.body[1].first].line
    /\ toks[b.body[Len(b.body)].last].line < toks[b.last].line

\* C11: for an else, catch or finally clause, expectSameLine is true exactly
\* when the construct's policy is same-line and the matching noCuddled flag is
\* unset (and, for else, the consequent is a block); when it is true one
\* diagnostic with a collapse-to-one-space fix is emitted iff the previous
\* token and the keyword are on different lines and the previous token is a
\* curly brace; when it is false one diagnostic with an
\* insert-line-break-before-keyword fix is emitted iff they are on the same
\* line.  Under stroustrup a same-line "} else" between well placed blocks
\* yields exactly one cuddle diagnostic and no placement diagnostic.
C11_CuddleDecision ==
    (phase = "checked" /\ node.type \in DOMAIN Options) =>
        LET toks == Tokenize(source)
        IN  /\ \A c \in ClausesOf(node) :
                  LET expectSameLine == /\ Options[node.type] = JsTrue
                                        /\ ~Truthy(Options, c.flag)
                                        /\ c.afterBlock
                      sameLine == toks[c.k - 1].line = toks[c.k].line
                      cuddle == CuddleReportsAt(toks, c.k)
                  IN  IF expectSameLine
                      THEN /\ Len(cuddle) = (IF ~sameLine /\ isCurlyPunctuator(toks[c.k - 1])
                                             THEN 1 ELSE 0)
                           /\ \A i \in DOMAIN cuddle :
                                 /\ cuddle[i].message = CLOSE_MESSAGE
                                 /\ IsCollapse(toks, cuddle[i].fix, c.k)
                      ELSE /\ Len(cuddle) = (IF sameLine THEN 1 ELSE 0)
                           /\ \A i \in DOMAIN cuddle :
                                 /\ cuddle[i].message = CLOSE_MESSAGE_STROUSTRUP_ALLMAN
                                 /\ IsBreakBefore(toks, cuddle[i].fix, c.k)
            /\ (/\ rules[1].opt0 = StyleName("stroustrup")
                /\ DOMAIN rules[1].opt1.obj \subseteq {"allowSingleLine"}
                /\ node.type = "IfStatement"
                /\ node.alternate.type # "null"
                /\ isBlock(node.consequent)
                /\ toks[node.alternate.first - 2].line = toks[node.alternate.first - 1].line
                /\ \A b \in BlocksOf(node) : WellPlaced(toks, b))
               => (Len(reports) = 1 /\ reports[1].message = CLOSE_MESSAGE_STROUSTRUP_ALLMAN)

\* stroustrup, "} else {" on one line between two well placed blocks
C11_Witness ==
    /\ phase = "checked"
    /\ rules[1].opt0 = StyleName("stroustrup")
    /\ rules[1].opt1 = Undefined
    /\ node.type = "IfStatement"
    /\ node.alternate.type # "null"
    /\ isBlock(node.consequent)
    /\ isBlock(node.alternate)
    /\ Tokenize(source)[node.alternate.first - 2].line
          = Tokenize(source)[node.alternate.first - 1].line
    /\ \A b \in BlocksOf(node) : WellPlaced(Tokenize(source), b)
    /\ Len(reports) = 1
    /\ reports[1].message = CLOSE_MESSAGE_STROUSTRUP_ALLMAN

-----------------------------------------------------------------------------
(* C12 *)

\* the closing-brace reports of block b
CloseReportsOf(toks, b) ==
    SelectSeq(reports, LAMBDA r : r.message = CLOSE_MESSAGE_SINGLE
                                   /\ r.fix.range[2] = toks[b.last].range[1])

\* C12: in the placement check of a non-empty block that is not exempted, one
\* closing-brace diagnostic, whose fix inserts a line break before the closing
\* brace, is reported exactly when the closing brace is on the line of the
\* final token of the block's last statement, also when that statement spans
\* several lines.
C12_CloseBrace ==
    LET toks == Tokenize(source)
    IN  \A b \in BlocksOf(node) : (Checked(toks, b) /\ Len(b.body) >= 1) =>
            LET lastStatement == b.body[Len(b.body)]
                close == CloseReportsOf(toks, b)
            IN  /\ Len(close) = (IF toks[b.last].line = toks[lastStatement.last].line
                                 THEN 1 ELSE 0)
                /\ \A i \in DOMAIN close : IsBreakBefore(toks, close[i].fix, b.last)

-----------------------------------------------------------------------------
(* C13 *)

\* C13: a cuddle diagnostic (either message) for an else, catch or finally
\* clause is emitted only when the token before the clause keyword is the
\* closing curly brace of a block; an if statement whose consequent is a bare
\* statement followed by else on the same line receives none.
C13_CuddleOnlyAfterBrace ==
    phase = "checked" =>
        LET toks == Tokenize(source)
        IN  \A c \in ClausesOf(node) :
                Len(CuddleReportsAt(toks, c.k)) >= 1
                => (c.afterBlock /\ toks[c.k - 1].value = "}")

====
